---- MODULE Spec2Model ----
(***************************************************************************)
(* Unraid-Dashboard: the schema-adaptive GraphQL client (src/api/unraid.js) *)
(* and the routes of src/server.js that drive it.                          *)
(*                                                                         *)
(* One step of the model is one resumption of an async function: the code  *)
(* that runs from the settling of an awaited promise up to the next await. *)
(* The transport, gql, tryQueries/tryMutations and the action dispatcher   *)
(* are the last version in src/src/api/unraid.js (lines 156-424); the      *)
(* normalizer getHostStatus and classifyStatus are src/unnamed/part_013    *)
(* (lines 104-212), whose gql/tryQueries are the same code; the            *)
(* /api/servers aggregation is src/unnamed/part_011 (lines 194-236).       *)
(* The power route is src/src/server.js (lines 369-391) and, for the route *)
(* that calls powerAction, src/unnamed/part_009 (lines 179-203); the store *)
(* is the last version in src/src/store/configStore.js (lines 181-272);    *)
(* the rendering is src/src/web/js/dashboard.js.  The settings routes are  *)
(* src/src/server.js (lines 394-421) and the host save that validates      *)
(* before it stores is src/unnamed/part_008 (lines 362-393).               *)
(***************************************************************************)
EXTENDS Integers, Sequences, FiniteSets, TLC

\* ---------------------------------------------------------------- bounds
NHosts == 3
MaxCalls == 3

\* ------------------------------------------------------ program constants
REQUEST_RETRIES == 2

VARIABLES
  hosts,    \* hosts.json: the sequence of Host Records listHosts() returns
  tokens,   \* tokens.json: baseUrl -> API token, 0 when none ('' is falsy)
  kind,     \* environment: how the backend behind each baseUrl behaves
  req,      \* the HTTP request the server is handling ("idle" when none)
  task,     \* the async call chains of the request, one per task id
  settled,  \* /api/servers: the slots of Promise.allSettled
  resp      \* the response sent for the last completed request

vars == <<hosts, tokens, kind, req, task, settled, resp>>

Urls  == 0..NHosts     \* base URLs; 0 is a URL no Host Record has
Tasks == 1..NHosts

HostRec(i) == [name |-> i, baseUrl |-> i, mac |-> i]

\* ------------------------------------------------------------ environment
Kinds == {"healthy", "down", "hang", "stall", "notoken", "sysbroken", "chaos"}
Responses == {"data", "nodata", "schema", "gql", "http", "httpschema"}

\* The fetch promise resolves with response headers.
Delivers(k) == k \notin {"down", "hang"}
\* The fetch promise rejects (connection refused, DNS, reset).
Rejects(k) == k \in {"down", "chaos"}
\* Nothing comes back before REQUEST_TIMEOUT_MS.
TimesOut(k) == k \in {"hang", "chaos"}
\* The response body is delivered after the headers.
BodyComes(k) == k # "stall"
\* What the backend answers to variant v of sub-query sub:
\*   data    2xx, data, no errors        nodata  2xx, neither data nor errors
\*   schema  2xx, errors matching /cannot query field/i
\*   gql     2xx, other errors           http    non-2xx
\*   httpschema  non-2xx, with a body of errors matching /cannot query field/i
Answers(k, sub, v) ==
  CASE k = "chaos"     -> Responses
    [] k = "sysbroken" -> IF sub = "sys" THEN {"gql"} ELSE {"data"}
    [] OTHER           -> {"data"}

\* ------------------------------------------------------------------ data
NoErr  == [k |-> "none", v |-> 0]
NoCall == [st |-> "none", v |-> 0, data |-> "none", err |-> NoErr]
NoOut  == [st |-> "none", ok |-> FALSE, error |-> NoErr]

IdleTask ==
  [op |-> "none", base |-> 0, arg |-> "none", pc |-> "idle", sub |-> "none",
   v |-> 0, attempt |-> 0, lastErr |-> NoErr, tried |-> <<>>, wire |-> <<>>,
   pend |-> "none", call |-> NoCall, hist |-> <<>>, out |-> NoOut]

Err(kn, tk) == [k |-> kn, v |-> tk.v]

\* Q_INFO_ARRAY, Q_PARITY, Q_HOST_METRICS, Q_ARRAY_CAPACITY, Q_DOCKERS, Q_VMS
SubQueries == <<"sys", "parity", "metrics", "capacity", "docker", "vms">>

\* The length of the variant list of each logical operation.
NumVariants(sub) ==
  CASE sub = "sys"      -> 2
    [] sub = "parity"   -> 3
    [] sub = "metrics"  -> 3
    [] sub = "capacity" -> 3
    [] sub = "docker"   -> 2
    [] sub = "vms"      -> 2
    [] OTHER            -> 3     \* the mutation lists of containerAction, vmAction

\* -------------------------------------------------------- credential store
getToken(baseUrl) == tokens[baseUrl]

\* ---------------------------------------------------------- transport, gql
maxAttempts == IF REQUEST_RETRIES + 1 > 1 THEN REQUEST_RETRIES + 1 ELSE 1

\* One fetch() call of fetchWithRetry: the request goes out with the headers
\* gql built, and the caller suspends on it.
fetchAttempt(tk) ==
  [tk EXCEPT !.pc = "fetch",
             !.wire = Append(@, [v |-> tk.v, key |-> getToken(tk.base)])]

\* tryQueries / tryMutations settle: the promise the caller awaits.
callReturns(tk, d) ==
  [tk EXCEPT !.pc = "settled",
             !.tried = Append(@, [v |-> tk.v, out |-> d]),
             !.call = [st |-> "ret", v |-> tk.v, data |-> d, err |-> NoErr]]

callThrows(tk) ==
  [tk EXCEPT !.pc = "settled",
             !.call = [st |-> "thr", v |-> tk.v, data |-> "none", err |-> tk.lastErr]]

RECURSIVE tryQueries_catch(_, _)

\* gql from its entry to its first await.
gql(tk) ==
  IF getToken(tk.base) = 0
    THEN tryQueries_catch(tk, Err("notoken", tk))
    ELSE fetchAttempt([tk EXCEPT !.attempt = 0])

\* Earlier tryQueries: every error falls through to the next variant.
tryQueries_catch_nobreak(tk, e) ==
  LET t1 == [tk EXCEPT !.lastErr = e, !.tried = Append(@, [v |-> tk.v, out |-> e.k])]
  IN IF tk.v >= NumVariants(tk.sub)
       THEN callThrows(t1)
       ELSE gql([t1 EXCEPT !.v = @ + 1])

\* A loop that keeps the first error instead of the last.
tryQueries_catch_first(tk, e) ==
  LET t1 == [tk EXCEPT !.lastErr = IF @ = NoErr THEN e ELSE @,
                       !.tried = Append(@, [v |-> tk.v, out |-> e.k])]
  IN IF e.k # "schema" \/ tk.v >= NumVariants(tk.sub)
       THEN callThrows(t1)
       ELSE gql([t1 EXCEPT !.v = @ + 1])

\* The catch block of the loop of tryQueries / tryMutations, and what the
\* loop does next: break and throw lastErr, or call gql on the next variant.
tryQueries_catch(tk, e) ==
  LET t1 == [tk EXCEPT !.lastErr = e, !.tried = Append(@, [v |-> tk.v, out |-> e.k])]
  IN IF e.k # "schema" \/ tk.v >= NumVariants(tk.sub)
       THEN callThrows(t1)
       ELSE gql([t1 EXCEPT !.v = @ + 1])

\* A loop that leaves out the head of the variant list.
tryQueries_from_second(tk, sub) ==
  gql([tk EXCEPT !.sub = sub, !.v = 2, !.attempt = 0, !.lastErr = NoErr,
                 !.tried = <<>>, !.wire = <<>>, !.pend = "none", !.call = NoCall])

\* tryQueries / tryMutations from entry to the first await.
tryQueries(tk, sub) ==
  gql([tk EXCEPT !.sub = sub, !.v = 1, !.attempt = 0, !.lastErr = NoErr,
                 !.tried = <<>>, !.wire = <<>>, !.pend = "none", !.call = NoCall])

\* A transport without retries: the first failed attempt is thrown.
fetchWithRetry_catch_once(tk, cause) ==
  tryQueries_catch([tk EXCEPT !.attempt = @ + 1], Err(cause, tk))

\* The catch block of fetchWithRetry; cause is "net" or "timeout".  When the
\* attempts are used up the error leaves httpJSON as a hint and gql throws it.
fetchWithRetry_catch(tk, cause) ==
  LET a == tk.attempt + 1
  IN IF a >= maxAttempts
       THEN tryQueries_catch([tk EXCEPT !.attempt = a], Err(cause, tk))
       ELSE [tk EXCEPT !.attempt = a, !.pc = "backoff"]

\* A loop that goes on to the next variant after a success.
gql_result_goes_on(tk, o) ==
  CASE o \in {"http", "httpschema"} -> tryQueries_catch(tk, Err(o, tk))
    [] o = "schema" -> tryQueries_catch(tk, Err("schema", tk))
    [] o = "gql"    -> tryQueries_catch(tk, Err("gql", tk))
    [] OTHER        ->
         IF tk.v < NumVariants(tk.sub)
           THEN gql([tk EXCEPT !.v = @ + 1, !.tried = Append(@, [v |-> tk.v, out |-> o])])
           ELSE callReturns(tk, o)

\* A transport that treats a non-2xx response as a failed attempt and retries.
gql_result_retries_http(tk, o) ==
  CASE o \in {"http", "httpschema"} ->
         IF tk.attempt + 1 < maxAttempts
           THEN [tk EXCEPT !.attempt = @ + 1, !.pc = "backoff"]
           ELSE tryQueries_catch(tk, Err(o, tk))
    [] o = "schema" -> tryQueries_catch(tk, Err("schema", tk))
    [] o = "gql"    -> tryQueries_catch(tk, Err("gql", tk))
    [] OTHER        -> callReturns(tk, o)

\* A gql that looks for 'cannot query field' in the errors of the body
\* before it looks at the HTTP status.
gql_result_http_soft(tk, o) ==
  CASE o = "http"   -> tryQueries_catch(tk, Err("http", tk))
    [] o \in {"schema", "httpschema"} -> tryQueries_catch(tk, Err("schema", tk))
    [] o = "gql"    -> tryQueries_catch(tk, Err("gql", tk))
    [] OTHER        -> callReturns(tk, o)

\* gql after httpJSON: the response o is turned into data or an error, and
\* `return await gql(...)` of the loop returns the data.  The error of a
\* non-2xx response carries the first message of the body, and no
\* _validation mark.
gql_result(tk, o) ==
  CASE o \in {"http", "httpschema"} -> tryQueries_catch(tk, Err(o, tk))
    [] o = "schema" -> tryQueries_catch(tk, Err("schema", tk))
    [] o = "gql"    -> tryQueries_catch(tk, Err("gql", tk))
    [] OTHER        -> callReturns(tk, o)

\* ------------------------------------------------------------- normalizer
finish(tk, o) == [tk EXCEPT !.pc = "done", !.out = o]

nextSub(sub) ==
  LET i == CHOOSE j \in 1..Len(SubQueries) : SubQueries[j] = sub
  IN SubQueries[i + 1]

\* getHostStatus from entry to its first await.
getHostStatus(baseUrl) ==
  tryQueries([IdleTask EXCEPT !.op = "status", !.base = baseUrl], "sys")

\* A normalizer whose VM inventory is as fatal as its first sub-query.
getHostStatus_resume_vms_fatal(tk) ==
  LET c == tk.call
      got == c.st = "ret" /\ c.data = "data"
      t1 == [tk EXCEPT !.hist = Append(@, [sub |-> tk.sub,
                                             res |-> IF got THEN "data" ELSE "default"])]
  IN IF tk.sub \in {"sys", "vms"} /\ c.st = "thr"
       THEN finish(tk, [st |-> "ret", ok |-> FALSE, error |-> c.err])
     ELSE IF tk.sub = "sys" /\ c.data = "nodata"
       THEN finish(tk, [st |-> "ret", ok |-> FALSE, error |-> [k |-> "type", v |-> c.v]])
     ELSE IF tk.sub = "vms"
       THEN finish(t1, [st |-> "ret", ok |-> TRUE, error |-> NoErr])
     ELSE tryQueries(t1, nextSub(tk.sub))

\* getHostStatus resumed by the settling of a sub-query.
getHostStatus_resume(tk) ==
  LET c == tk.call
      \* data the normalizer could read: an undefined result is read with
      \* optional chaining after parity and vms, and throws a TypeError elsewhere
      got == c.st = "ret" /\ c.data = "data"
      t1 == [tk EXCEPT !.hist = Append(@, [sub |-> tk.sub,
                                             res |-> IF got THEN "data" ELSE "default"])]
  IN IF tk.sub = "sys"
       THEN IF c.st = "thr"
              THEN finish(tk, [st |-> "ret", ok |-> FALSE, error |-> c.err])
            ELSE IF c.data = "nodata"
              THEN finish(tk, [st |-> "ret", ok |-> FALSE, error |-> [k |-> "type", v |-> c.v]])
            ELSE tryQueries(t1, nextSub(tk.sub))
     ELSE IF tk.sub = "vms"
       THEN finish(t1, [st |-> "ret", ok |-> TRUE, error |-> NoErr])
     ELSE tryQueries(t1, nextSub(tk.sub))

\* The inventory a backend that answers reports: two entries, one running.
Inventory == [running |-> 1, total |-> 2]

\* dockerRun/dockerTot, vmRun/vmTot: counted from the answer when the
\* sub-query returned data, left at 0 otherwise.
summary(tk, sub) ==
  IF \E i \in 1..Len(tk.hist) : tk.hist[i] = [sub |-> sub, res |-> "data"]
    THEN Inventory
    ELSE [running |-> 0, total |-> 0]

\* The object getHostStatus returned, for a task that is done, with the
\* inventory summaries of its data: { ok, data } or { ok, error }, and no
\* other top-level key.
getHostStatus_return(tk) ==
  IF tk.out.ok
    THEN [ok |-> TRUE, data |-> [docker |-> summary(tk, "docker"), vms |-> summary(tk, "vms")]]
    ELSE [ok |-> FALSE, error |-> tk.out.error]

\* st.warnings || [] of a caller.
warningsOf(st) == IF "warnings" \in DOMAIN st THEN st.warnings ELSE <<>>

\* ------------------------------------------------------ action dispatcher
\* "" is a request body without an action.
ContainerVerbs == {"start", "stop", "restart", "pause", "Start", ""}
VmAllowed == {"start", "stop", "pause", "resume", "forceStop", "reboot", "reset"}
VmVerbs == {"start", "reset", "restart", "delete"}

\* A dispatcher for which start is the default.
field_start_by_default(action) == IF action = "stop" THEN "stop" ELSE "start"

field(action) == IF action = "start" THEN "start" ELSE "stop"

\* containerAction from entry to its first await.
containerAction(baseUrl, action) ==
  LET tk == [IdleTask EXCEPT !.op = "container", !.base = baseUrl, !.arg = action]
  IN IF action = "restart"
       THEN tryQueries(tk, "stop")
       ELSE tryQueries(tk, field(action))

\* A restart that sends start although stop failed.
containerAction_resume_ignores_stop(tk) ==
  LET c == tk.call
      t1 == [tk EXCEPT !.hist = Append(@, [sub |-> tk.sub,
                                             res |-> IF c.st = "ret" THEN "ok" ELSE "err"])]
  IN IF tk.arg = "restart" /\ tk.hist = <<>>
       THEN tryQueries(t1, "start")
     ELSE IF c.st = "thr"
       THEN finish(t1, [st |-> "thr", ok |-> FALSE, error |-> c.err])
     ELSE finish(t1, [st |-> "ret", ok |-> TRUE, error |-> NoErr])

\* containerAction resumed by the settling of tryMutations (for restart:
\* of the inner containerAction(stop), then of containerAction(start)).
containerAction_resume(tk) ==
  LET c == tk.call
      t1 == [tk EXCEPT !.hist = Append(@, [sub |-> tk.sub,
                                             res |-> IF c.st = "ret" THEN "ok" ELSE "err"])]
  IN IF c.st = "thr"
       THEN finish(t1, [st |-> "thr", ok |-> FALSE, error |-> c.err])
     ELSE IF tk.arg = "restart" /\ tk.hist = <<>>
       THEN tryQueries(t1, "start")
     ELSE finish(t1, [st |-> "ret", ok |-> TRUE, error |-> NoErr])

\* A vmAction that validates the verb only after the mutation was tried.
vmAction_unchecked(baseUrl, action) ==
  tryQueries([IdleTask EXCEPT !.op = "vm", !.base = baseUrl, !.arg = action], "vm")

\* vmAction from entry to its first await.
vmAction(baseUrl, action) ==
  LET tk == [IdleTask EXCEPT !.op = "vm", !.base = baseUrl, !.arg = action]
  IN IF action \notin VmAllowed
       THEN finish(tk, [st |-> "thr", ok |-> FALSE, error |-> [k |-> "unsupported", v |-> 0]])
       ELSE tryQueries(tk, "vm")

vmAction_resume(tk) ==
  LET c == tk.call
      t1 == [tk EXCEPT !.hist = Append(@, [sub |-> tk.sub,
                                             res |-> IF c.st = "ret" THEN "ok" ELSE "err"])]
  IN IF c.st = "thr"
       THEN finish(t1, [st |-> "thr", ok |-> FALSE, error |-> c.err])
       ELSE finish(t1, [st |-> "ret", ok |-> TRUE, error |-> NoErr])

resume(tk) ==
  CASE tk.op = "status"    -> getHostStatus_resume(tk)
    [] tk.op = "container" -> containerAction_resume(tk)
    [] OTHER               -> vmAction_resume(tk)

\* ------------------------------------------------------------------ state
NoResp == [route |-> "none", status |-> 0, ok |-> FALSE, error |-> NoErr, body |-> <<>>]
Idle == [route |-> "idle"]
NoTasks == [t \in Tasks |-> IdleTask]
NoSlots == [t \in Tasks |-> [st |-> "pending"]]

\* Three configured hosts behind an arbitrary backend; the second one's
\* schema rejects the info query for a reason other than a missing field,
\* the third has no token.
Init ==
  /\ hosts = [i \in 1..NHosts |-> HostRec(i)]
  /\ tokens = [u \in Urls |-> IF u \in 1..NHosts /\ u # 3 THEN u ELSE 0]
  /\ kind = [u \in Urls |-> IF u = 2 THEN "sysbroken" ELSE "chaos"]
  /\ req = Idle
  /\ task = NoTasks
  /\ settled = NoSlots
  /\ resp = NoResp

\* ------------------------------------------------------- steps of a task
HeadersArrive(t) ==
  /\ task[t].pc = "fetch"
  /\ Delivers(kind[task[t].base])
  /\ \E o \in Answers(kind[task[t].base], task[t].sub, task[t].v) :
       task' = [task EXCEPT ![t] = [@ EXCEPT !.pc = "body", !.pend = o]]
  /\ UNCHANGED <<hosts, tokens, kind, req, settled, resp>>

FetchReject(t) ==
  /\ task[t].pc = "fetch"
  /\ Rejects(kind[task[t].base])
  /\ task' = [task EXCEPT ![t] = fetchWithRetry_catch(@, "net")]
  /\ UNCHANGED <<hosts, tokens, kind, req, settled, resp>>

TimerAbort(t) ==
  /\ task[t].pc = "fetch"
  /\ TimesOut(kind[task[t].base])
  /\ task' = [task EXCEPT ![t] = fetchWithRetry_catch(@, "timeout")]
  /\ UNCHANGED <<hosts, tokens, kind, req, settled, resp>>

BackoffElapsed(t) ==
  /\ task[t].pc = "backoff"
  /\ task' = [task EXCEPT ![t] = fetchAttempt(@)]
  /\ UNCHANGED <<hosts, tokens, kind, req, settled, resp>>

BodyArrive(t) ==
  /\ task[t].pc = "body"
  /\ BodyComes(kind[task[t].base])
  /\ task' = [task EXCEPT ![t] = gql_result([@ EXCEPT !.pend = "none"], task[t].pend)]
  /\ UNCHANGED <<hosts, tokens, kind, req, settled, resp>>

Resume(t) ==
  /\ task[t].pc = "settled"
  /\ task' = [task EXCEPT ![t] = resume(@)]
  /\ UNCHANGED <<hosts, tokens, kind, req, settled, resp>>

Step ==
  \E t \in Tasks :
    \/ HeadersArrive(t)
    \/ FetchReject(t)
    \/ TimerAbort(t)
    \/ BackoffElapsed(t)
    \/ BodyArrive(t)
    \/ Resume(t)

\* ----------------------------------------------------------------- routes
\* GET /api/settings/test?base=
ReqTest ==
  /\ req = Idle
  /\ \E base \in Urls :
       task' = [NoTasks EXCEPT ![1] = getHostStatus(base)]
  /\ req' = [route |-> "test"]
  /\ resp' = NoResp
  /\ settled' = NoSlots
  /\ UNCHANGED <<hosts, tokens, kind>>

RespondTest ==
  /\ req.route = "test"
  /\ task[1].pc = "done"
  /\ resp' = IF task[1].out.ok
               THEN [route |-> "test", status |-> 200, ok |-> TRUE, error |-> NoErr, body |-> <<>>]
               ELSE [route |-> "test", status |-> 502, ok |-> FALSE,
                     error |-> task[1].out.error, body |-> <<>>]
  /\ req' = Idle
  /\ UNCHANGED <<hosts, tokens, kind, task, settled>>

\* POST /api/host/docker/action?base=
ReqDockerAction ==
  /\ req = Idle
  /\ \E base \in Urls, action \in ContainerVerbs :
       task' = [NoTasks EXCEPT ![1] = containerAction(base, action)]
  /\ req' = [route |-> "docker"]
  /\ resp' = NoResp
  /\ settled' = NoSlots
  /\ UNCHANGED <<hosts, tokens, kind>>

\* POST /api/host/vm/action?base=
ReqVmAction ==
  /\ req = Idle
  /\ \E base \in Urls, action \in VmVerbs :
       task' = [NoTasks EXCEPT ![1] = vmAction(base, action)]
  /\ req' = [route |-> "vm"]
  /\ resp' = NoResp
  /\ settled' = NoSlots
  /\ UNCHANGED <<hosts, tokens, kind>>

\* The action routes that swallow a failure of the dispatcher.
RespondAction_always_ok ==
  /\ req.route \in {"docker", "vm"}
  /\ task[1].pc = "done"
  /\ resp' = [route |-> req.route, status |-> 200, ok |-> TRUE, error |-> NoErr, body |-> <<>>]
  /\ req' = Idle
  /\ UNCHANGED <<hosts, tokens, kind, task, settled>>

RespondAction ==
  /\ req.route \in {"docker", "vm"}
  /\ task[1].pc = "done"
  /\ resp' = IF task[1].out.st = "ret"
               THEN [route |-> req.route, status |-> 200, ok |-> TRUE, error |-> NoErr, body |-> <<>>]
               ELSE [route |-> req.route, status |-> 502, ok |-> FALSE,
                     error |-> task[1].out.error, body |-> <<>>]
  /\ req' = Idle
  /\ UNCHANGED <<hosts, tokens, kind, task, settled>>

\* ------------------------------------------------------------ power / WOL
Unavailable == [k |-> "unavailable", v |-> 0]

\* The earlier powerAction: a mutation sent to the backend.
powerAction_gql(baseUrl, action) ==
  tryQueries([IdleTask EXCEPT !.op = "power", !.base = baseUrl, !.arg = action], "power")

\* powerAction: a stub that throws.
powerAction(baseUrl, action) ==
  finish([IdleTask EXCEPT !.op = "power", !.base = baseUrl, !.arg = action],
         [st |-> "thr", ok |-> FALSE, error |-> Unavailable])

PowerKinds == {"power", "other"}
PowerVerbs == {"wake", "reboot", "shutdown"}

knownHost(base) == \E i \in 1..Len(hosts) : hosts[i].baseUrl = base

PowerResp(status, e, kd, action) ==
  [route |-> "power", status |-> status, ok |-> status = 200, error |-> e, body |-> <<>>,
   of |-> [kind |-> kd, action |-> action]]

\* POST /api/host?base=&action=kind {action}: everything but a wake is
\* answered without an await.
ReqPower ==
  /\ req = Idle
  /\ \E base \in Urls, kd \in PowerKinds, action \in PowerVerbs :
       IF ~knownHost(base)
         THEN /\ resp' = PowerResp(404, [k |-> "unknownhost", v |-> 0], kd, action)
              /\ req' = Idle /\ task' = NoTasks
       ELSE IF kd = "power" /\ action = "wake"
         THEN /\ resp' = NoResp
              /\ req' = [route |-> "power", kind |-> kd, action |-> action, fail |-> 502]
              /\ task' = [NoTasks EXCEPT ![1] =
                            [IdleTask EXCEPT !.op = "wol", !.base = base, !.arg = action,
                                             !.pc = "wol"]]
       ELSE IF kd = "power"
         THEN /\ resp' = PowerResp(400, Unavailable, kd, action)
              /\ req' = Idle /\ task' = NoTasks
       ELSE /\ resp' = PowerResp(400, [k |-> "unsupported", v |-> 0], kd, action)
            /\ req' = Idle /\ task' = NoTasks
  /\ settled' = NoSlots
  /\ UNCHANGED <<hosts, tokens, kind>>

\* sendWol settles: the magic packet was sent, or the socket failed.
WolSettles ==
  /\ task[1].pc = "wol"
  /\ \E sent \in BOOLEAN :
       task' = [task EXCEPT ![1] =
                  finish(@, IF sent THEN [st |-> "ret", ok |-> TRUE, error |-> NoErr]
                                    ELSE [st |-> "thr", ok |-> FALSE,
                                          error |-> [k |-> "wol", v |-> 0]])]
  /\ UNCHANGED <<hosts, tokens, kind, req, settled, resp>>

\* The /api/host of the servers that call powerAction for reboot and
\* shutdown (with the other branches as above).
ReqPowerAction ==
  /\ req = Idle
  /\ \E base \in Urls, action \in {"reboot", "shutdown"} :
       /\ knownHost(base)
       /\ task' = [NoTasks EXCEPT ![1] = powerAction(base, action)]
       /\ req' = [route |-> "power", kind |-> "power", action |-> action, fail |-> 500]
  /\ resp' = NoResp
  /\ settled' = NoSlots
  /\ UNCHANGED <<hosts, tokens, kind>>

\* The route resumes after its await: OK, or the catch block's FAIL.
RespondPower ==
  /\ req.route = "power"
  /\ task[1].pc = "done"
  /\ resp' = IF task[1].out.st = "ret"
               THEN PowerResp(200, NoErr, req.kind, req.action)
               ELSE PowerResp(req.fail, task[1].out.error, req.kind, req.action)
  /\ req' = Idle
  /\ UNCHANGED <<hosts, tokens, kind, task, settled>>

Next ==
  \/ ReqTest
  \/ RespondTest
  \/ ReqDockerAction
  \/ ReqVmAction
  \/ RespondAction
  \/ ReqPower
  \/ WolSettles
  \/ ReqPowerAction
  \/ RespondPower
  \/ Step

Spec == Init /\ [][Next]_vars

\* -------------------------------------------------------------- aggregator
\* null / undefined; a number n is the one-element sequence <<n>>.
Null == <<>>

\* The record the mapper of /api/servers returns for host h from st, the
\* value of getHostStatus: st has no status and no metrics of its own (they
\* are under st.data), so the code falls back to st.ok and to null.
serverRecord_always_ok(h, st) ==
  [name |-> h.name, baseUrl |-> h.baseUrl, mac |-> h.mac,
   status |-> [code |-> "ok", label |-> "OK"],
   metrics |-> [cpuPct |-> Null, ramPct |-> Null, storagePct |-> Null],
   error |-> NoErr]

serverRecord(h, st) ==
  IF st.st = "thr"
    THEN [name |-> h.name, baseUrl |-> h.baseUrl, mac |-> h.mac,
          status |-> [code |-> "offline", label |-> "Offline"],
          metrics |-> [cpuPct |-> Null, ramPct |-> Null, storagePct |-> Null],
          error |-> st.error]
    ELSE [name |-> h.name, baseUrl |-> h.baseUrl, mac |-> h.mac,
          status |-> IF st.ok = FALSE THEN [code |-> "offline", label |-> "Offline"]
                                      ELSE [code |-> "ok", label |-> "OK"],
          metrics |-> [cpuPct |-> Null, ramPct |-> Null, storagePct |-> Null],
          error |-> IF st.ok = FALSE THEN st.error ELSE NoErr]

\* Results collected in the order the tasks complete.
allSettled_slot_by_arrival(s, i, r) ==
  LET j == CHOOSE m \in DOMAIN s :
             s[m].st = "pending" /\ \A n \in DOMAIN s : s[n].st = "pending" => m <= n
  IN [s EXCEPT ![j] = r]

\* Promise.allSettled keeps the outcome of the i-th promise in slot i.
allSettled_slot(s, i, r) == [s EXCEPT ![i] = r]

\* settled.map((r, i) => ...) of the handler.
serversResult(hs, s) ==
  [i \in 1..Len(hs) |->
     IF s[i].st = "fulfilled"
       THEN s[i].value
       ELSE [name |-> hs[i].name, baseUrl |-> hs[i].baseUrl, mac |-> hs[i].mac,
             status |-> [code |-> "offline", label |-> "Offline"],
             metrics |-> [cpuPct |-> Null, ramPct |-> Null, storagePct |-> Null],
             error |-> s[i].reason]]

\* GET /api/servers: every mapper runs up to its first await.
ReqServers ==
  /\ req = Idle
  /\ task' = [t \in Tasks |-> IF t <= Len(hosts) THEN getHostStatus(hosts[t].baseUrl)
                                                  ELSE IdleTask]
  /\ req' = [route |-> "servers"]
  /\ resp' = NoResp
  /\ settled' = NoSlots
  /\ UNCHANGED <<hosts, tokens, kind>>

\* The mapper of host t resumes with the value of getHostStatus and returns.
MapperReturns(t) ==
  /\ req.route = "servers"
  /\ t <= Len(hosts)
  /\ task[t].pc = "done"
  /\ settled[t].st = "pending"
  /\ settled' = allSettled_slot(settled, t,
                  [st |-> "fulfilled", value |-> serverRecord(hosts[t], task[t].out)])
  /\ UNCHANGED <<hosts, tokens, kind, req, task, resp>>

RespondServers ==
  /\ req.route = "servers"
  /\ \A t \in 1..Len(hosts) : settled[t].st # "pending"
  /\ resp' = [route |-> "servers", status |-> 200, ok |-> TRUE, error |-> NoErr,
              body |-> serversResult(hosts, settled)]
  /\ req' = Idle
  /\ UNCHANGED <<hosts, tokens, kind, task, settled>>

AggKinds == {"healthy", "down", "hang", "stall", "notoken", "sysbroken"}

\* Any list of up to NHosts Host Records, each behind a backend of its own.
AggInit ==
  /\ \E n \in 0..NHosts : hosts = [i \in 1..n |-> HostRec(i)]
  /\ kind \in [Urls -> AggKinds]
  /\ \A u \in Urls : u \notin 1..Len(hosts) => kind[u] = "healthy"
  /\ tokens = [u \in Urls |-> IF u \in 1..Len(hosts) /\ kind[u] # "notoken" THEN u ELSE 0]
  /\ req = Idle
  /\ task = NoTasks
  /\ settled = NoSlots
  /\ resp = NoResp

AggNext ==
  \/ ReqServers
  \/ Step
  \/ \E t \in Tasks : MapperReturns(t)
  \/ RespondServers

AggSpec == AggInit /\ [][AggNext]_vars

\* The event loop runs every continuation that is ready, timers fire, and a
\* backend does what its kind says; nothing makes a backend send a body it
\* withholds.
AggLive == AggSpec /\ WF_vars(AggNext)

\* ---------------------------------------------------- settings write path
NotAUrl == -1

\* A base URL as a form submits it: u itself, or u with white space around
\* it; String(...).trim() gives u back for both.
padded(u) == u + NHosts + 1
trim(u) == IF u > NHosts THEN u - NHosts - 1 ELSE u

\* new URL(s) succeeds: the URL parser drops leading and trailing spaces.
isUrl(u) == trim(u) \in Urls

\* MAC strings: 0 is the empty one, 1 is AA:BB:CC:DD:EE:FF, 2 is seventeen
\* hex digits and colons in another arrangement (AABBCCDDEEFF:::::).
MacStrings == {0, 1, 2}
wellFormedMac(m) == m = 1
\* /^[0-9A-Fa-f:]{17}$/.test(s)
isMac(m) == m \in {1, 2}

\* What a settings form can submit: 0 is the empty name, MAC or token.
FormNames  == {0, 1}
FormUrls   == (1..NHosts) \cup {padded(1)} \cup {NotAUrl}
FormMacs   == {0, 1}
FormTokens == {0, 1, 2}

\* The keys tokens.json can come to hold.
TokenKeys == Urls \cup {padded(u) : u \in 1..NHosts}

\* upsertHost: the record h built from the host passed in.
hostOf(host) == [name |-> host.name, baseUrl |-> trim(host.baseUrl), mac |-> host.mac]

validHost(h) == h.name # 0 /\ isUrl(h.baseUrl) /\ isMac(h.mac)

\* The earlier registry, which finds the record to replace by its name.
upsertHost_by_name(hs, h) ==
  IF \E i \in 1..Len(hs) : hs[i].name = h.name
    THEN [i \in 1..Len(hs) |-> IF hs[i].name = h.name THEN h ELSE hs[i]]
    ELSE Append(hs, h)

\* upsertHost once the record is known to be valid.
upsertHost(hs, h) ==
  IF \E i \in 1..Len(hs) : hs[i].baseUrl = h.baseUrl
    THEN [i \in 1..Len(hs) |-> IF hs[i].baseUrl = h.baseUrl THEN h ELSE hs[i]]
    ELSE Append(hs, h)

setToken(tks, baseUrl, token) == [tks EXCEPT ![baseUrl] = token]

\* deleteHost: the hosts that stay, and the tokens that stay.
deleteHost_hosts(hs, baseUrl) == SelectSeq(hs, LAMBDA h : h.baseUrl # baseUrl)
\* The first deleteHost: the Host Record goes, tokens.json is left alone.
deleteHost_tokens_v1(tks, baseUrl) == tks

deleteHost_tokens(tks, baseUrl) ==
  IF baseUrl \in DOMAIN tks THEN [tks EXCEPT ![baseUrl] = 0] ELSE tks

\* tokensSummary(): a flag for every base URL that has a token stored.
tokensSummary(tks) == [u \in {x \in DOMAIN tks : tks[x] # 0} |-> TRUE]

\* The earlier listing: the stored items as they are, token included.
settingsHosts_with_token(hs, tks) ==
  [i \in 1..Len(hs) |->
     [name |-> hs[i].name, baseUrl |-> hs[i].baseUrl, mac |-> hs[i].mac,
      tokenSet |-> hs[i].baseUrl \in DOMAIN tokensSummary(tks),
      token |-> tks[hs[i].baseUrl]]]

\* hosts.map(h => ({ ...h, tokenSet: !!tokens[h.baseUrl] })) of the listing.
settingsHosts(hs, tks) ==
  [i \in 1..Len(hs) |->
     [name |-> hs[i].name, baseUrl |-> hs[i].baseUrl, mac |-> hs[i].mac,
      tokenSet |-> hs[i].baseUrl \in DOMAIN tokensSummary(tks)]]

SaveFailed(e) == [route |-> "save", status |-> 422, ok |-> FALSE,
                  error |-> [k |-> e, v |-> 0], body |-> <<>>]

\* testUnraid up to its await: one fetch to new URL('/graphql', baseUrl),
\* x-api-key: token || ''.
testUnraid(baseUrl, token) ==
  [IdleTask EXCEPT !.op = "probe", !.base = trim(baseUrl), !.pc = "probing",
                   !.wire = <<[v |-> 0, key |-> token]>>]

\* POST /api/settings/host after the optional validation: upsertHost of
\* { name, baseUrl, mac }, then setToken(baseUrl, token) with the baseUrl of
\* the request body when a token was submitted, then the answer with the
\* record upsertHost returned.
saveHost_hosts(f) ==
  IF validHost(hostOf(f)) THEN upsertHost(hosts, hostOf(f)) ELSE hosts
saveHost_tokens(f) ==
  IF validHost(hostOf(f)) /\ f.token # 0 /\ isUrl(f.baseUrl)
    THEN setToken(tokens, f.baseUrl, f.token)
    ELSE tokens
saveHost_resp(f) ==
  IF validHost(hostOf(f))
    THEN [route |-> "save", status |-> 200, ok |-> TRUE, error |-> NoErr,
          body |-> <<[name |-> hostOf(f).name, baseUrl |-> hostOf(f).baseUrl,
                      mac |-> hostOf(f).mac, tokenSet |-> f.token # 0]>>]
    ELSE SaveFailed("invalid")

\* POST /api/settings/host without ?validate=true.
ReqSaveHost ==
  /\ req = Idle
  /\ \E n \in FormNames, u \in FormUrls, m \in FormMacs, tok \in FormTokens :
       LET f == [name |-> n, baseUrl |-> u, mac |-> m, token |-> tok]
       IN /\ hosts' = saveHost_hosts(f)
          /\ tokens' = saveHost_tokens(f)
          /\ resp' = saveHost_resp(f)
  /\ task' = NoTasks
  /\ UNCHANGED <<kind, req, settled>>

\* POST /api/settings/host?validate=true up to the await of testUnraid;
\* new URL('/graphql', baseUrl) throws when baseUrl is no URL.
ReqSaveHostValidate ==
  /\ req = Idle
  /\ \E n \in FormNames, u \in FormUrls, m \in FormMacs, tok \in FormTokens :
       IF isUrl(u)
         THEN /\ task' = [NoTasks EXCEPT ![1] = testUnraid(u, tok)]
              /\ req' = [route |-> "save", name |-> n, baseUrl |-> u, mac |-> m, token |-> tok]
              /\ resp' = NoResp
         ELSE /\ task' = NoTasks
              /\ req' = req
              /\ resp' = SaveFailed("invalid")
  /\ UNCHANGED <<hosts, tokens, kind, settled>>

\* The probe's fetch rejects: testUnraid throws, nothing is saved.
ProbeReject ==
  /\ req.route = "save"
  /\ task[1].pc = "probing"
  /\ Rejects(kind[task[1].base])
  /\ task' = [task EXCEPT ![1] = [@ EXCEPT !.pc = "done"]]
  /\ resp' = SaveFailed("net")
  /\ req' = Idle
  /\ UNCHANGED <<hosts, tokens, kind, settled>>

ProbeHeaders ==
  /\ req.route = "save"
  /\ task[1].pc = "probing"
  /\ Delivers(kind[task[1].base])
  /\ \E o \in Responses :
       task' = [task EXCEPT ![1] = [@ EXCEPT !.pc = "probed", !.pend = o]]
  /\ UNCHANGED <<hosts, tokens, kind, req, settled, resp>>

\* The probe's body is read: an error answer makes testUnraid throw, any
\* other lets the handler save.
ProbeBody ==
  /\ req.route = "save"
  /\ task[1].pc = "probed"
  /\ BodyComes(kind[task[1].base])
  /\ task' = [task EXCEPT ![1] = [@ EXCEPT !.pc = "done"]]
  /\ IF task[1].pend \in {"http", "httpschema", "schema", "gql"}
       THEN /\ resp' = SaveFailed(task[1].pend)
            /\ UNCHANGED <<hosts, tokens>>
       ELSE /\ hosts' = saveHost_hosts(req)
            /\ tokens' = saveHost_tokens(req)
            /\ resp' = saveHost_resp(req)
  /\ req' = Idle
  /\ UNCHANGED <<kind, settled>>

\* GET /api/settings/hosts
ReqListHosts ==
  /\ req = Idle
  /\ resp' = [route |-> "hosts", status |-> 200, ok |-> TRUE, error |-> NoErr,
              body |-> settingsHosts(hosts, tokens)]
  /\ task' = NoTasks
  /\ UNCHANGED <<hosts, tokens, kind, req, settled>>

\* DELETE /api/settings/host?base=
ReqDeleteHost ==
  /\ req = Idle
  /\ \E u \in FormUrls :
       /\ hosts' = deleteHost_hosts(hosts, u)
       /\ tokens' = deleteHost_tokens(tokens, u)
  /\ resp' = [route |-> "delete", status |-> 200, ok |-> TRUE, error |-> NoErr, body |-> <<>>]
  /\ task' = NoTasks
  /\ UNCHANGED <<kind, req, settled>>

\* POST /api/settings/token
ReqSetToken ==
  /\ req = Idle
  /\ \E u \in FormUrls, tok \in FormTokens :
       IF isUrl(u) /\ tok # 0
         THEN /\ tokens' = setToken(tokens, u, tok)
              /\ resp' = [route |-> "token", status |-> 200, ok |-> TRUE,
                          error |-> NoErr, body |-> <<>>]
         ELSE /\ tokens' = tokens
              /\ resp' = [route |-> "token", status |-> 400, ok |-> FALSE,
                          error |-> [k |-> "invalid", v |-> 0], body |-> <<>>]
  /\ task' = NoTasks
  /\ UNCHANGED <<hosts, kind, req, settled>>

\* A fresh data directory: no hosts, no tokens.
StoreInit ==
  /\ hosts = <<>>
  /\ tokens = [u \in TokenKeys |-> 0]
  /\ kind = [u \in Urls |-> "chaos"]
  /\ req = Idle
  /\ task = NoTasks
  /\ settled = NoSlots
  /\ resp = NoResp

StoreNext ==
  \/ ReqSaveHost
  \/ ReqSaveHostValidate
  \/ ProbeReject
  \/ ProbeHeaders
  \/ ProbeBody
  \/ ReqListHosts
  \/ ReqDeleteHost
  \/ ReqSetToken

StoreSpec == StoreInit /\ [][StoreNext]_vars

\* ------------------------------------------------- the store's own calls
StoreCall(op, baseUrl, mac, token) ==
  [op |-> op, baseUrl |-> baseUrl, mac |-> mac, token |-> token]

Called(c) == [route |-> "store", calls |-> Append(req.calls, c)]
Returned == [route |-> "store", status |-> 200, ok |-> TRUE, error |-> NoErr, body |-> <<>>]
Threw(e) == [route |-> "store", status |-> 0, ok |-> FALSE,
             error |-> [k |-> e, v |-> 0], body |-> <<>>]

\* upsertHost(host): throws on an invalid host, replaces or appends otherwise.
CallUpsertHost ==
  /\ req.route = "store" /\ Len(req.calls) < MaxCalls
  /\ \E n \in FormNames, u \in FormUrls, m \in MacStrings :
       LET h == hostOf([name |-> n, baseUrl |-> u, mac |-> m])
       IN /\ req' = Called(StoreCall("upsertHost", u, m, 0))
          /\ IF validHost(h)
               THEN hosts' = upsertHost(hosts, h) /\ resp' = Returned
               ELSE hosts' = hosts /\ resp' = Threw("invalid")
  /\ UNCHANGED <<tokens, kind, task, settled>>

\* setToken(baseUrl, token): throws on a non-URL or an empty token.
CallSetToken ==
  /\ req.route = "store" /\ Len(req.calls) < MaxCalls
  /\ \E u \in FormUrls, tok \in {0, 1} :
       /\ req' = Called(StoreCall("setToken", u, 0, tok))
       /\ IF isUrl(u) /\ tok # 0
            THEN tokens' = setToken(tokens, u, tok) /\ resp' = Returned
            ELSE tokens' = tokens /\ resp' = Threw("invalid")
  /\ UNCHANGED <<hosts, kind, task, settled>>

\* deleteHost(baseUrl)
CallDeleteHost ==
  /\ req.route = "store" /\ Len(req.calls) < MaxCalls
  /\ \E u \in FormUrls :
       /\ req' = Called(StoreCall("deleteHost", u, 0, 0))
       /\ hosts' = deleteHost_hosts(hosts, u)
       /\ tokens' = deleteHost_tokens(tokens, u)
  /\ resp' = Returned
  /\ UNCHANGED <<kind, task, settled>>

\* A fresh data directory and any sequence of up to MaxCalls calls.
ApiInit ==
  /\ hosts = <<>>
  /\ tokens = [u \in TokenKeys |-> 0]
  /\ kind = [u \in Urls |-> "healthy"]
  /\ req = [route |-> "store", calls |-> <<>>]
  /\ task = NoTasks
  /\ settled = NoSlots
  /\ resp = NoResp

ApiNext ==
  \/ CallUpsertHost
  \/ CallSetToken
  \/ CallDeleteHost

ApiSpec == ApiInit /\ [][ApiNext]_vars

\* -------------------------------------------------- transactional host save
TxResp(status, e, body) ==
  [route |-> "savetx", status |-> status, ok |-> status = 200, error |-> e, body |-> body]

\* POST /api/settings/host of the server that validates with getHostStatus,
\* up to its await: a missing field is answered at once; otherwise the token
\* is stored for the test and getHostStatus starts, reading the store as
\* setToken left it.  had is the token the store held for baseUrl before.
ReqSaveHostTx ==
  /\ req = Idle
  /\ \E n \in FormNames, u \in 1..NHosts, m \in FormMacs, tok \in FormTokens,
        old \in 0..NHosts :
       IF n = 0 \/ m = 0 \/ tok = 0
         THEN /\ tokens' = tokens
              /\ task' = NoTasks
              /\ req' = req
              /\ resp' = TxResp(400, [k |-> "missing", v |-> 0], <<>>)
         ELSE /\ tokens' = setToken(tokens, u, tok)
              /\ task' = [NoTasks EXCEPT ![1] = getHostStatus(u)']
              /\ req' = [route |-> "savetx", name |-> n, baseUrl |-> u, mac |-> m,
                         token |-> tok, oldBaseUrl |-> old, had |-> tokens[u]]
              /\ resp' = NoResp
  /\ UNCHANGED <<hosts, kind, settled>>

\* The handler resumes with the value of getHostStatus: a failed test is
\* thrown to the catch block, a passed one saves the host and deletes the
\* host of oldBaseUrl when the base URL was changed.
RespondSaveHostTx ==
  /\ req.route = "savetx"
  /\ task[1].pc = "done"
  /\ IF ~task[1].out.ok
       THEN /\ resp' = TxResp(400, task[1].out.error, <<>>)
            /\ UNCHANGED <<hosts, tokens>>
       ELSE LET h == [name |-> req.name, baseUrl |-> req.baseUrl, mac |-> req.mac]
                renamed == req.oldBaseUrl # 0 /\ req.oldBaseUrl # req.baseUrl
            IN /\ hosts' = IF renamed THEN deleteHost_hosts(upsertHost(hosts, h), req.oldBaseUrl)
                                       ELSE upsertHost(hosts, h)
               /\ tokens' = IF renamed THEN deleteHost_tokens(tokens, req.oldBaseUrl)
                                        ELSE tokens
               /\ resp' = TxResp(200, NoErr,
                                 <<[name |-> h.name, baseUrl |-> h.baseUrl, mac |-> h.mac,
                                    tokenSet |-> TRUE]>>)
  /\ req' = Idle
  /\ UNCHANGED <<kind, task, settled>>

TxKinds == {"healthy", "down", "hang"}

\* A fresh data directory; each base URL has a backend that answers, one
\* that refuses connections, or one that never answers.
TxInit ==
  /\ hosts = <<>>
  /\ tokens = [u \in Urls |-> 0]
  /\ kind \in [Urls -> TxKinds]
  /\ kind[0] = "healthy"
  /\ req = Idle
  /\ task = NoTasks
  /\ settled = NoSlots
  /\ resp = NoResp

TxNext ==
  \/ ReqSaveHostTx
  \/ Step
  \/ RespondSaveHostTx

TxSpec == TxInit /\ [][TxNext]_vars

\* ------------------------------------------- normalizer: the pure functions
Some(n) == <<n>>

\* What the array sub-query can report as run-state; "" is an absent one
\* (sys.array?.state || sys.array?.status || null).
ArrayStates == {"", "STARTED", "started", "STOPPED", "MAINTENANCE"}

\* String(p?.type || p?.state || p?.status || '') of a parity operation.
ParityTexts == {"", "check", "Parity-Check", "clear", "RUNNING"}
ParityProgresses == {Null, Some(0 - 1), Some(0), Some(42), Some(100), Some(101)}

\* parityInfo: a null parityInfo reads, through p?., like an operation
\* without text and without progress.
ParityInfos == [text : ParityTexts, progress : ParityProgresses]
NoParity == [text |-> "", progress |-> Null]

toUpperCase(s) == IF s = "started" THEN "STARTED" ELSE s

\* /check|parity/i.test(text)
testCheckParity(text) == text \in {"check", "Parity-Check"}

\* `Parity Check ${pct}%` is [text |-> "Parity Check", pct |-> <<pct>>].
Label(text, pct) == [text |-> text, pct |-> pct]

\* A classifier that consults the parity rule first and the run-state after.
classifyStatus_parity_first(arrayState, parity, errText) ==
  LET hasProgress == parity.progress # Null /\ parity.progress[1] >= 0
                       /\ parity.progress[1] <= 100
      isParityActive == testCheckParity(parity.text) \/ hasProgress
  IN IF errText # "" THEN [code |-> "error", label |-> Label(errText, Null)]
     ELSE IF isParityActive
       THEN [code |-> "parity",
             label |-> Label("Parity Check", IF hasProgress THEN parity.progress ELSE Null)]
     ELSE IF arrayState = "" THEN [code |-> "unknown", label |-> Label("Unknown", Null)]
     ELSE IF toUpperCase(arrayState) # "STARTED"
       THEN [code |-> "stopped", label |-> Label(toUpperCase(arrayState), Null)]
     ELSE [code |-> "ok", label |-> Label("OK", Null)]

classifyStatus(arrayState, parity, errText) ==
  LET hasProgress == parity.progress # Null /\ parity.progress[1] >= 0
                       /\ parity.progress[1] <= 100
      isParityActive == testCheckParity(parity.text) \/ hasProgress
  IN IF errText # "" THEN [code |-> "error", label |-> Label(errText, Null)]
     ELSE IF arrayState = "" THEN [code |-> "unknown", label |-> Label("Unknown", Null)]
     ELSE IF toUpperCase(arrayState) # "STARTED"
       THEN [code |-> "stopped", label |-> Label(toUpperCase(arrayState), Null)]
     ELSE IF isParityActive
       THEN [code |-> "parity",
             label |-> Label("Parity Check", IF hasProgress THEN parity.progress ELSE Null)]
     ELSE [code |-> "ok", label |-> Label("OK", Null)]

ClassifyInputs == [route : {"classify"}, arrayState : ArrayStates, parity : ParityInfos]

\* getHostStatus line 194: classifyStatus(arrayState, parityInfo, null).
Classify ==
  /\ req.route = "classify"
  /\ resp = NoResp
  /\ resp' = [route |-> "classify",
              status |-> classifyStatus(req.arrayState, req.parity, "")]
  /\ UNCHANGED <<hosts, tokens, kind, req, task, settled>>

\* An operation object as the backend reports it; "" is an absent string
\* field: operation {type, state, progress}, parityCheck {state, progress},
\* a task {kind, status, progress}.
Operation(type, kd, state, status, progress) ==
  [type |-> type, kind |-> kd, state |-> state, status |-> status, progress |-> progress]

OpProgresses == {Null, Some(42), Some(101)}
OpTexts == {"", "RUNNING"}
OperationObjects ==
  {Operation(t, "", st, "", pr) : t \in {"", "check", "clear"}, st \in OpTexts, pr \in OpProgresses}
ParityCheckObjects ==
  {Operation("", "", st, "", pr) : st \in OpTexts, pr \in OpProgresses}
TaskObjects ==
  {Operation("", k, "", st, pr) : k \in {"Parity-Check", "mover"}, st \in OpTexts, pr \in OpProgresses}

\* What tryQueries(Q_PARITY) can settle with: thrown, data without array
\* operation, or one of the three shapes.
ParityPayloads ==
  [shape : {"thrown", "none"}]
    \cup [shape : {"operation"}, operation : OperationObjects]
    \cup [shape : {"parityCheck"}, parityCheck : ParityCheckObjects]
    \cup [shape : {"tasks"}, tasks : {<<>>} \cup {<<a>> : a \in TaskObjects}
                                      \cup {<<a, b>> : a \in TaskObjects, b \in TaskObjects}]

\* a.tasks.find(t => /parity|check/i.test(t.kind || '')): the first task
\* whose kind matches, undefined when none does.
findTask(tasks) ==
  LET hits == {i \in 1..Len(tasks) : testCheckParity(tasks[i].kind)}
  IN IF hits = {} THEN Null
     ELSE tasks[CHOOSE i \in hits : \A j \in hits : i <= j]

\* getHostStatus, the parity block: parityInfo, null when the sub-query
\* threw or reported no operation.
parityInfoOf(p) ==
  CASE p.shape = "operation"   -> p.operation
    [] p.shape = "parityCheck" -> p.parityCheck
    [] p.shape = "tasks"       -> findTask(p.tasks)
    [] OTHER                   -> Null

\* What classifyStatus reads of parityInfo: String(p?.type || p?.state ||
\* p?.status || '') and p?.progress.
parityRead(info) ==
  IF info = Null THEN NoParity
  ELSE [text |-> IF info.type # "" THEN info.type
                 ELSE IF info.state # "" THEN info.state
                 ELSE info.status,
        progress |-> info.progress]

ParityInputs == [route : {"parity"}, arrayState : {"STARTED"}, p : ParityPayloads]

\* getHostStatus lines 133-142 and 194: parityInfo from the answer of the
\* parity sub-query, then classifyStatus(arrayState, parityInfo, null).
ClassifyParity ==
  /\ req.route = "parity"
  /\ resp = NoResp
  /\ resp' = [route |-> "parity", info |-> parityInfoOf(req.p),
              status |-> classifyStatus(req.arrayState, parityRead(parityInfoOf(req.p)), "")]
  /\ UNCHANGED <<hosts, tokens, kind, req, task, settled>>

\* a ?? b
Coalesce(a, b) == IF a = Null THEN b ELSE a

\* What tryQueries(Q_HOST_METRICS) can settle with: thrown, or data of one of
\* the three shapes (m.metrics, m.host, m.resources), or data of none.
Pcts == {Null, Some(0), Some(57)}
MetricsPayloads ==
  [shape : {"thrown", "metrics", "host", "resources", "none"}, cpu : Pcts, ram : Pcts]

\* getHostStatus, the metrics block.
normalizeMetrics(m) ==
  IF m.shape \in {"thrown", "none"}
    THEN [cpuPct |-> Null, ramPct |-> Null]
    ELSE [cpuPct |-> Coalesce(m.cpu, Null), ramPct |-> Coalesce(m.ram, Null)]

\* What tryQueries(Q_ARRAY_CAPACITY) can settle with: thrown, array.capacity
\* {total, used, free}, array {size, free} (total holds size), or neither.
Totals == {Null, Some(0), Some(8), Some(1000)}
Useds  == {Null, Some(0), Some(3), Some(600)}
Frees  == {Null, Some(5), Some(400)}
CapacityPayloads ==
  [shape : {"thrown", "capacity", "sizefree", "none"}, total : Totals, used : Useds, free : Frees]

\* Math.round(a / t * 100) for t > 0: the nearest integer, halves upwards.
roundPct(a, t) == (200 * a + t) \div (2 * t)

\* A storage percentage that takes the free share for the used one.
storagePct_free_as_used(cap) ==
  IF cap.shape = "capacity"
    THEN LET t == IF cap.total = Null THEN 0 ELSE cap.total[1]
         IN IF t > 0
              THEN IF cap.used # Null THEN Some(roundPct(cap.used[1], t))
                   ELSE IF cap.free # Null THEN Some(roundPct(cap.free[1], t))
                   ELSE Null
              ELSE Null
  ELSE IF cap.shape = "sizefree" /\ cap.total # Null /\ cap.free # Null
    THEN IF cap.total[1] > 0 THEN Some(roundPct(cap.free[1], cap.total[1])) ELSE Null
  ELSE Null

\* getHostStatus, the storage block.
storagePct(cap) ==
  IF cap.shape = "capacity"
    THEN LET t == IF cap.total = Null THEN 0 ELSE cap.total[1]
         IN IF t > 0
              THEN IF cap.used # Null THEN Some(roundPct(cap.used[1], t))
                   ELSE IF cap.free # Null THEN Some(roundPct(t - cap.free[1], t))
                   ELSE Null
              ELSE Null
  ELSE IF cap.shape = "sizefree" /\ cap.total # Null /\ cap.free # Null
    THEN IF cap.total[1] > 0
           THEN Some(roundPct(cap.total[1] - cap.free[1], cap.total[1]))
           ELSE Null
  ELSE Null

\* The value getHostStatus returns when the first sub-query succeeded.
hostStatusValue(m, cap) ==
  [ok |-> TRUE,
   data |-> [metrics |-> [cpuPct |-> normalizeMetrics(m).cpuPct,
                          ramPct |-> normalizeMetrics(m).ramPct,
                          storagePct |-> storagePct(cap)]]]

\* st?.metrics?.[f] ?? st?.[f] ?? null of the mapper of /api/servers.
recordMetric(st, f) ==
  LET a == IF "metrics" \in DOMAIN st THEN st.metrics[f] ELSE Null
      b == IF f \in DOMAIN st THEN st[f] ELSE Null
  IN Coalesce(Coalesce(a, b), Null)

\* The record of /api/servers for a value of getHostStatus that is ok.
recordOf(st) ==
  [status |-> IF "status" \in DOMAIN st THEN st.status ELSE [code |-> "ok", label |-> "OK"],
   metrics |-> [cpuPct |-> recordMetric(st, "cpuPct"),
                ramPct |-> recordMetric(st, "ramPct"),
                storagePct |-> recordMetric(st, "storagePct")]]

\* entry?.status?.metrics?.[f] ?? entry?.metrics?.[f] of row() in dashboard.js.
rowMetric(entry, f) ==
  LET a == IF "metrics" \in DOMAIN entry.status THEN entry.status.metrics[f] ELSE Null
  IN Coalesce(a, entry.metrics[f])

max(a, b) == IF a >= b THEN a ELSE b
min(a, b) == IF a <= b THEN a ELSE b

clampPct(v) == IF v = Null THEN Null ELSE Some(max(0, min(100, v[1])))

\* meter(label, value): the dash for null, the percentage otherwise.
meter(value) ==
  LET p == clampPct(value)
  IN IF p = Null
       THEN [cls |-> "u-muted", val |-> Null]
       ELSE [cls |-> IF p[1] >= 85 THEN "hot" ELSE IF p[1] >= 60 THEN "warn" ELSE "ok",
             val |-> p]

SnapshotInputs == [route : {"snapshot"}, m : MetricsPayloads, cap : CapacityPayloads]

\* getHostStatus builds its value from what the metrics and capacity
\* sub-queries settled with.
Normalize ==
  /\ req.route = "snapshot"
  /\ resp = NoResp
  /\ resp' = [route |-> "snapshot", stage |-> "value", st |-> hostStatusValue(req.m, req.cap)]
  /\ UNCHANGED <<hosts, tokens, kind, req, task, settled>>

\* The mapper of /api/servers turns the value into the host's record.
Serve ==
  /\ resp.route = "snapshot"
  /\ resp.stage = "value"
  /\ resp' = [route |-> "snapshot", stage |-> "record", st |-> resp.st,
              entry |-> recordOf(resp.st)]
  /\ UNCHANGED <<hosts, tokens, kind, req, task, settled>>

\* The dashboard renders the record's row.
Render ==
  /\ resp.route = "snapshot"
  /\ resp.stage = "record"
  /\ resp' = [route |-> "snapshot", stage |-> "render", st |-> resp.st, entry |-> resp.entry,
              cpu |-> meter(rowMetric(resp.entry, "cpuPct")),
              ram |-> meter(rowMetric(resp.entry, "ramPct")),
              sto |-> meter(rowMetric(resp.entry, "storagePct"))]
  /\ UNCHANGED <<hosts, tokens, kind, req, task, settled>>

\* One answer of the backend, normalized, served and rendered.
NormInit ==
  /\ hosts = <<>>
  /\ tokens = [u \in Urls |-> 0]
  /\ kind = [u \in Urls |-> "healthy"]
  /\ req \in ClassifyInputs \cup ParityInputs \cup SnapshotInputs
  /\ task = NoTasks
  /\ settled = NoSlots
  /\ resp = NoResp

NormNext ==
  \/ Classify
  \/ ClassifyParity
  \/ Normalize
  \/ Serve
  \/ Render

NormSpec == NormInit /\ [][NormNext]_vars

\* ----------------------------------------------------------------- claims
Running(tk) == tk.pc \in {"fetch", "body", "backoff"}
Soft(i) == [v |-> i, out |-> "schema"]
\* The requests on the wire walk the variant list from its head, one variant
\* after the other, and the last one is for variant k.
WireUpTo(w, k) ==
  /\ w # <<>>
  /\ w[1].v = 1
  /\ w[Len(w)].v = k
  /\ \A i \in 1..(Len(w) - 1) : w[i + 1].v \in {w[i].v, w[i].v + 1}

\* C1: tryQueries tries the variants in list order: when it returns, the
\* variant k whose data it returns is the first that did not soft-fail, the
\* variants before k each soft-failed, the requests sent are for variants
\* 1..k in that order, and nothing is tried or sent after the success.
C1_FallbackOrder ==
  \A t \in Tasks :
    LET tk == task[t] IN
    /\ tk.call.st = "ret" =>
         /\ Len(tk.tried) = tk.call.v
         /\ \A i \in 1..(Len(tk.tried) - 1) : tk.tried[i] = Soft(i)
         /\ tk.tried[Len(tk.tried)] = [v |-> tk.call.v, out |-> tk.call.data]
         /\ tk.call.data \in {"data", "nodata"}
         /\ WireUpTo(tk.wire, tk.call.v)
         /\ ~Running(tk)
    /\ \A i \in 1..Len(tk.tried) :
         tk.tried[i].out \in {"data", "nodata"} => i = Len(tk.tried) /\ tk.call.st = "ret"

\* A call over [A, B, C] in which A and B soft-failed and C's data came back.
C1_Witness ==
  \E t \in Tasks :
    /\ task[t].call.st = "ret" /\ task[t].call.data = "data"
    /\ task[t].tried = <<Soft(1), Soft(2), [v |-> 3, out |-> "data"]>>
    /\ Len(task[t].wire) = 3
    /\ \A i \in 1..3 : task[t].wire[i].v = i

Hard(e) == e.k \in {"notoken", "net", "timeout", "http", "httpschema", "gql"}

\* C2: a hard failure ends the call at once: it is the last variant tried,
\* it is the error raised, and no later variant is tried or sent.
C2_HardFailStops ==
  \A t \in Tasks :
    LET tk == task[t] IN
    \A i \in 1..Len(tk.tried) :
      tk.tried[i].out \in {"notoken", "net", "timeout", "http", "httpschema", "gql"} =>
        /\ i = Len(tk.tried)
        /\ tk.call.st = "thr"
        /\ tk.call.err = [k |-> tk.tried[i].out, v |-> tk.tried[i].v]
        /\ ~Running(tk)
        /\ \A j \in 1..Len(tk.wire) : tk.wire[j].v <= tk.tried[i].v

\* [A, B, ...]: A answered with a non-2xx status (401) and B was never sent.
C2_Witness ==
  \E t \in Tasks :
    /\ NumVariants(task[t].sub) >= 2
    /\ task[t].call.st = "thr"
    /\ task[t].call.err = [k |-> "http", v |-> 1]
    /\ task[t].tried = <<[v |-> 1, out |-> "http"]>>
    /\ task[t].wire # <<>>
    /\ \A j \in 1..Len(task[t].wire) : task[t].wire[j].v = 1

AllSoft(tk) ==
  /\ Len(tk.tried) = NumVariants(tk.sub)
  /\ \A i \in 1..Len(tk.tried) : tk.tried[i] = Soft(i)

\* C3: when every variant of the list soft-fails the call raises, and the
\* error raised is the one of the last variant of the list.
C3_LastError ==
  \A t \in Tasks :
    AllSoft(task[t]) =>
      /\ task[t].call.st = "thr"
      /\ task[t].call.err = [k |-> "schema", v |-> NumVariants(task[t].sub)]

C3_Witness ==
  \E t \in Tasks :
    /\ AllSoft(task[t])
    /\ NumVariants(task[t].sub) = 3
    /\ task[t].call.st = "thr"
    /\ task[t].call.err.v = 3

\* C7: restart is stop, then start: start is sent only after stop succeeded;
\* a failed stop raises and start is never sent; a failed start raises and
\* nothing else is attempted.
C7_Restart ==
  \A t \in Tasks :
    LET tk == task[t] IN
    (tk.op = "container" /\ tk.arg = "restart") =>
      /\ tk.sub \in {"stop", "start"}
      /\ Len(tk.hist) <= 2
      /\ tk.sub = "start" => tk.hist # <<>> /\ tk.hist[1] = [sub |-> "stop", res |-> "ok"]
      /\ (tk.hist # <<>> /\ tk.hist[1].res = "err") =>
           /\ tk.hist = <<[sub |-> "stop", res |-> "err"]>>
           /\ tk.sub = "stop"
           /\ tk.pc = "done" /\ tk.out.st = "thr"
      /\ Len(tk.hist) = 2 =>
           /\ tk.hist[2].sub = "start"
           /\ tk.pc = "done"
           /\ tk.out.st = (IF tk.hist[2].res = "ok" THEN "ret" ELSE "thr")
      /\ tk.pc = "done" => tk.hist # <<>> /\ (tk.out.st = "ret" <=> Len(tk.hist) = 2 /\ tk.hist[2].res = "ok")

\* stop succeeded, start threw: the call raised with start's error.
C7_Witness ==
  \E t \in Tasks :
    /\ task[t].op = "container" /\ task[t].arg = "restart"
    /\ task[t].hist = <<[sub |-> "stop", res |-> "ok"], [sub |-> "start", res |-> "err"]>>
    /\ task[t].pc = "done" /\ task[t].out.st = "thr"
    /\ task[t].out.error = task[t].call.err

\* C8: a VM verb outside the allow-list raises the unsupported-action error
\* with no credential lookup and no request; only allowed verbs reach gql.
C8_VmAllowList ==
  \A t \in Tasks :
    LET tk == task[t] IN
    tk.op = "vm" =>
      /\ tk.arg \notin VmAllowed =>
           /\ tk.pc = "done" /\ tk.out.st = "thr"
           /\ tk.out.error = [k |-> "unsupported", v |-> 0]
           /\ tk.tried = <<>> /\ tk.wire = <<>> /\ tk.sub = "none"
      /\ (tk.tried # <<>> \/ tk.wire # <<>> \/ tk.sub # "none") => tk.arg \in VmAllowed

\* A verb outside the list, for a base URL that has no token: the error is
\* the unsupported action, not the missing credential.
C8_Witness ==
  \E t \in Tasks :
    /\ task[t].op = "vm" /\ task[t].arg = "delete"
    /\ getToken(task[t].base) = 0
    /\ task[t].pc = "done" /\ task[t].out.error.k = "unsupported"
    /\ resp.route = "vm" /\ ~resp.ok

\* Sub-query sub of the host behind base URL u would succeed on its own: the
\* host has a token, its backend answers, and the first variant the schema
\* knows returns data.
SubQuerySucceeds(u, sub) ==
  /\ getToken(u) # 0
  /\ kind[u] \in {"healthy", "sysbroken"}
  /\ \E v \in 1..NumVariants(sub) :
       /\ Answers(kind[u], sub, v) = {"data"}
       /\ \A w \in 1..(v - 1) : Answers(kind[u], sub, w) = {"schema"}

\* C4: getHostStatus never throws, and it reports ok:false only when every
\* sub-query fails: when one of them succeeds the result is ok:true.
C4_FailsOnlyWhenAllFail ==
  \A t \in Tasks :
    (task[t].op = "status" /\ task[t].pc = "done") =>
      /\ task[t].out.st = "ret"
      /\ (\E sub \in {"sys", "parity", "docker", "vms", "metrics", "capacity"} :
            SubQuerySucceeds(task[t].base, sub)) => task[t].out.ok

\* C4, the part the code keeps: getHostStatus never throws to its caller.
C4_NeverThrows ==
  \A t \in Tasks : task[t].op = "status" => task[t].out.st # "thr"

FailKinds == {"down", "hang", "notoken"}
FailError(k) == CASE k = "down" -> "net" [] k = "hang" -> "timeout" [] OTHER -> "notoken"

okRecord(h) ==
  [name |-> h.name, baseUrl |-> h.baseUrl, mac |-> h.mac,
   status |-> [code |-> "ok", label |-> "OK"],
   metrics |-> [cpuPct |-> Null, ramPct |-> Null, storagePct |-> Null],
   error |-> NoErr]

C6_SlotsByIndex ==
  /\ \A i \in 1..Len(hosts) :
       settled[i].st = "fulfilled" =>
         /\ settled[i].value.name = hosts[i].name
         /\ settled[i].value.baseUrl = hosts[i].baseUrl
  /\ \A i \in Tasks : i > Len(hosts) => settled[i].st = "pending"
  /\ resp.route = "servers" =>
       /\ resp.status = 200 /\ resp.ok
       /\ DOMAIN resp.body = 1..Len(hosts)
       /\ \A i \in 1..Len(hosts) :
            /\ resp.body[i].name = hosts[i].name
            /\ resp.body[i].baseUrl = hosts[i].baseUrl

\* The last host's task completed before the first one's, and failed.
C6_Witness ==
  /\ req.route = "servers"
  /\ Len(hosts) >= 2
  /\ settled[Len(hosts)].st = "fulfilled"
  /\ settled[Len(hosts)].value.status.code = "offline"
  /\ settled[1].st = "pending"
  /\ task[1].pc # "done"

\* C10: no backend stalls the aggregation forever: every /api/servers
\* request is answered.
C10_ServersCompletes == (req.route = "servers") ~> (resp.route = "servers")

\* C9: no request leaves without a credential: every request on the wire
\* carries a token, and a base URL without one fails before any request.
C9_NoUnauthenticatedRequest ==
  \A t \in Tasks : \A i \in 1..Len(task[t].wire) : task[t].wire[i].key # 0

\* C9 on the path through gql alone: the request carries the token stored
\* for its base URL, and a missing token is an error with nothing sent for
\* that variant.
C9_GqlCarriesToken ==
  \A t \in Tasks :
    LET tk == task[t] IN
    tk.op \in {"status", "container", "vm"} =>
      /\ \A i \in 1..Len(tk.wire) : tk.wire[i].key # 0 /\ tk.wire[i].key = getToken(tk.base)
      /\ getToken(tk.base) = 0 => tk.wire = <<>>
      /\ (tk.op = "status" /\ getToken(tk.base) = 0) =>
           tk.pc \in {"settled", "done"} /\ tk.call.err = [k |-> "notoken", v |-> 1]

\* The requests of w that are for variant v.
Attempts(w, v) == Cardinality({i \in 1..Len(w) : w[i].v = v})

\* w2 is w1, or w1 followed by one request for variant v.
SameOrNext(w1, w2, v) ==
  \/ w2 = w1
  \/ /\ Len(w2) = Len(w1) + 1
     /\ SubSeq(w2, 1, Len(w1)) = w1
     /\ w2[Len(w2)].v = v

\* C11: fetchWithRetry re-attempts only after the fetch call itself threw:
\* once a response is received no request is sent again for that variant,
\* whatever the response; a variant takes at least 1 and at most
\* REQUEST_RETRIES + 1 attempts; and the transport error is raised exactly
\* when all the attempts failed.
C11_RetryOnlyTransport ==
  /\ [](\A t \in Tasks :
         LET tk == task[t] IN
         /\ tk.attempt < maxAttempts \/ ~Running(tk)
         /\ \A v \in 1..3 : Attempts(tk.wire, v) <= maxAttempts
         /\ tk.pc \in {"fetch", "body"} => Attempts(tk.wire, tk.v) = tk.attempt + 1
         /\ tk.pc = "backoff" => Attempts(tk.wire, tk.v) = tk.attempt /\ tk.attempt >= 1
         /\ \A i \in 1..Len(tk.tried) :
              /\ tk.tried[i].out \in Responses =>
                   Attempts(tk.wire, tk.tried[i].v) \in 1..maxAttempts
              /\ tk.tried[i].out \in {"net", "timeout"} =>
                   Attempts(tk.wire, tk.tried[i].v) = maxAttempts)
  /\ [][\A t \in Tasks :
          LET a == task[t]
              b == task'[t]
          IN /\ a.pc = "body" =>
                  /\ b.pc # "backoff"
                  /\ b.pc = "fetch" => b.v = a.v + 1
                  /\ SameOrNext(a.wire, b.wire, a.v + 1)
             /\ (b.pc = "backoff" /\ a.pc # "backoff") => a.pc = "fetch" /\ a.pend = "none"
             /\ (a.pc = "fetch" /\ b.pc = "settled" /\ b.call.st = "thr") =>
                  /\ b.call.err.k \in {"net", "timeout"}
                  /\ b.call.err.v = a.v
                  /\ a.attempt + 1 = maxAttempts]_vars

\* The first attempt failed in transport, the second received a non-2xx
\* response, and that response ended the call: two requests, no third.
C11_Witness ==
  \E t \in Tasks :
    /\ task[t].tried = <<[v |-> 1, out |-> "http"]>>
    /\ task[t].call.st = "thr"
    /\ Len(task[t].wire) = 2
    /\ task[t].attempt = 1

\* C12: run-state 'STOPPED' classifies as 'stopped' whatever the parity data;
\* 'STARTED' with an active parity operation at progress 42 classifies as
\* code 'parity' with label 'Parity Check 42%'; 'STARTED' with no parity
\* operation classifies as 'ok'.
C12_ClassifyCases ==
  resp.route = "classify" =>
    /\ req.arrayState = "STOPPED" =>
         resp.status = [code |-> "stopped", label |-> Label("STOPPED", Null)]
    /\ (req.arrayState = "STARTED" /\ req.parity.progress = Some(42)) =>
         resp.status = [code |-> "parity", label |-> Label("Parity Check", Some(42))]
    /\ (req.arrayState = "STARTED" /\ req.parity = NoParity) =>
         resp.status = [code |-> "ok", label |-> Label("OK", Null)]

\* A stopped array with a parity check at 42% on record: stopped.
C12_Witness ==
  /\ resp.route = "classify"
  /\ req.arrayState = "STOPPED"
  /\ req.parity = [text |-> "check", progress |-> Some(42)]
  /\ resp.status.code = "stopped"

\* C13: the rules apply in this priority: a run-state that is present and
\* not 'STARTED' gives 'stopped'; otherwise an active parity operation gives
\* 'parity'; otherwise an absent run-state gives 'unknown'; otherwise 'ok'.
C13_Priority ==
  resp.route = "classify" =>
    LET present == req.arrayState # ""
        active == \/ testCheckParity(req.parity.text)
                  \/ req.parity.progress \in {Some(n) : n \in 0..100}
    IN resp.status.code =
         IF present /\ toUpperCase(req.arrayState) # "STARTED" THEN "stopped"
         ELSE IF active THEN "parity"
         ELSE IF ~present THEN "unknown"
         ELSE "ok"

\* What the backend reported as CPU percentage: null when the metrics
\* sub-query failed or its answer has none of the known shapes.
ReportedCpu == IF req.m.shape \in {"thrown", "none"} THEN Null ELSE req.m.cpu

\* v1 and v2 agree on being unknown and on being zero.
SameUnknownAndZero(v1, v2) == (v1 = Null <=> v2 = Null) /\ (v1 = Some(0) <=> v2 = Some(0))

\* C14: unknown is never conflated with zero, at any layer: the value of
\* getHostStatus, the record of /api/servers and the rendered meter each
\* hold null exactly when the backend reported no CPU percentage, and 0
\* exactly when it reported 0.
C14_NullIsNotZero ==
  resp.route = "snapshot" =>
    /\ SameUnknownAndZero(ReportedCpu, resp.st.data.metrics.cpuPct)
    /\ resp.stage \in {"record", "render"} =>
         SameUnknownAndZero(ReportedCpu, resp.entry.metrics.cpuPct)
    /\ resp.stage = "render" => SameUnknownAndZero(ReportedCpu, resp.cpu.val)

\* C14 at the first layer alone: the value of getHostStatus keeps null and 0
\* apart, for the CPU and the RAM percentage.
C14_ValueKeepsZero ==
  resp.route = "snapshot" =>
    /\ SameUnknownAndZero(ReportedCpu, resp.st.data.metrics.cpuPct)
    /\ SameUnknownAndZero(IF req.m.shape \in {"thrown", "none"} THEN Null ELSE req.m.ram,
                          resp.st.data.metrics.ramPct)

\* p is x rounded to the nearest integer, halves upwards, for x = 100 * a / t.
IsRounded(p, a, t) == (2 * p - 1) * t <= 200 * a /\ 200 * a < (2 * p + 1) * t

\* C15: with a total > 0, storagePct is used/total*100 rounded when used is
\* given, (total-free)/total*100 rounded when only free is given, and null
\* when neither is given; {total:1000, free:400} and {total:1000, used:600}
\* both give 60.
C15_StoragePct ==
  (resp.route = "snapshot" /\ req.cap.shape = "capacity"
     /\ req.cap.total # Null /\ req.cap.total # Some(0)) =>
    LET t == req.cap.total[1]
        pct == resp.st.data.metrics.storagePct
    IN /\ req.cap.used # Null =>
            pct # Null /\ IsRounded(pct[1], req.cap.used[1], t)
       /\ (req.cap.used = Null /\ req.cap.free # Null) =>
            pct # Null /\ IsRounded(pct[1], t - req.cap.free[1], t)
       /\ (req.cap.used = Null /\ req.cap.free = Null) => pct = Null
       /\ (t = 1000 /\ req.cap.used = Null /\ req.cap.free = Some(400)) => pct = Some(60)
       /\ (t = 1000 /\ req.cap.used = Some(600)) => pct = Some(60)

\* {total:1000, free:400} without used: 60.
C15_Witness ==
  /\ resp.route = "snapshot"
  /\ req.cap = [shape |-> "capacity", total |-> Some(1000), used |-> Null, free |-> Some(400)]
  /\ resp.st.data.metrics.storagePct = Some(60)

\* C16: when the VM inventory fails (every variant soft-fails, or a variant
\* fails hard) getHostStatus still returns ok:true, with vms {running:0,
\* total:0}.
C16_VmsTolerated ==
  \A t \in Tasks :
    LET tk == task[t] IN
    (tk.op = "status" /\ tk.pc = "done" /\ tk.sub = "vms" /\ tk.call.st = "thr") =>
      /\ tk.out.st = "ret"
      /\ getHostStatus_return(tk).ok
      /\ getHostStatus_return(tk).data.vms = [running |-> 0, total |-> 0]

\* Both VM variants answered 'cannot query field', the docker inventory was
\* read, and the snapshot is ok.
C16_Witness ==
  \E t \in Tasks :
    /\ task[t].op = "status" /\ task[t].pc = "done" /\ task[t].sub = "vms"
    /\ AllSoft(task[t]) /\ task[t].call.st = "thr"
    /\ task[t].out.ok
    /\ getHostStatus_return(task[t]).data.docker = Inventory
    /\ getHostStatus_return(task[t]).data.vms = [running |-> 0, total |-> 0]

\* The sub-queries whose failure getHostStatus recovered from: a metrics,
\* capacity or docker sub-query that left its default, a VM inventory that
\* threw.
Recovered(tk) ==
  {s \in {"metrics", "capacity", "docker"} :
     \E i \in 1..Len(tk.hist) : tk.hist[i] = [sub |-> s, res |-> "default"]}
  \cup (IF tk.sub = "vms" /\ tk.call.st = "thr" THEN {"vms"} ELSE {})

\* C17: every sub-query failure getHostStatus recovers from is in the
\* snapshot's warnings, tagged with the sub-query; a snapshot without
\* failure has no warnings.
C17_WarningsRecorded ==
  \A t \in Tasks :
    LET tk == task[t]
        w == warningsOf(getHostStatus_return(tk))
    IN (tk.op = "status" /\ tk.pc = "done" /\ tk.out.ok) =>
         /\ \A s \in Recovered(tk) : \E i \in 1..Len(w) : w[i] = s
         /\ (\A i \in 1..Len(tk.hist) : tk.hist[i].res = "data") => w = <<>>

\* C18: an action route answers ok:true only when the dispatcher completed
\* without raising; every error it raises is answered ok:false with that
\* error, and the dispatcher is not run again.
C18_ActionFailuresSurface ==
  /\ [](resp.route \in {"docker", "vm"} =>
          /\ task[1].pc = "done"
          /\ resp.ok <=> task[1].out.st = "ret"
          /\ task[1].out.st = "thr" =>
               /\ resp.status = 502
               /\ resp.error = task[1].out.error
               /\ resp.error # NoErr)
  /\ [][req.route \in {"docker", "vm"} =>
          /\ task'[1].op = task[1].op /\ task'[1].arg = task[1].arg
          /\ task[1].pc = "done" => task'[1] = task[1]]_vars

\* A container start that the backend refused with a non-2xx status.
C18_Witness ==
  /\ resp.route = "docker" /\ ~resp.ok /\ resp.status = 502
  /\ task[1].arg = "start"
  /\ resp.error = [k |-> "http", v |-> 1]

C20_TokenDiesWithHost ==
  (req.route = "store" /\ req.calls # <<>>) =>
    LET last == req.calls[Len(req.calls)]
    IN (last.op = "deleteHost" /\ last.baseUrl \in Urls) =>
         /\ getToken(last.baseUrl) = 0
         /\ last.baseUrl \notin DOMAIN tokensSummary(tokens)
         /\ ~knownHost(last.baseUrl)

\* upsertHost, setToken, deleteHost for the same base URL.
C20_Witness ==
  /\ req.route = "store"
  /\ req.calls = <<StoreCall("upsertHost", 1, 1, 0), StoreCall("setToken", 1, 0, 1),
                   StoreCall("deleteHost", 1, 0, 0)>>
  /\ getToken(1) = 0
  /\ hosts = <<>>

\* C21: the credential is keyed by the baseUrl of the Host Record: when the
\* save route has stored a host together with a token, getToken of the
\* stored record's baseUrl returns that token, for every accepted form of
\* the submitted baseUrl.
C21_TokenKeyedLikeHost ==
  /\ []((resp.route = "save" /\ resp.ok /\ resp.body[1].tokenSet) =>
          getToken(resp.body[1].baseUrl) # 0)
  /\ [][(req.route = "save" /\ req.token # 0 /\ resp'.route = "save" /\ resp'.ok) =>
          tokens'[resp'.body[1].baseUrl] = req.token]_vars

\* The stores that differ from tks in token strings only: the same keys
\* have a token.
AltStores(tks) ==
  {[u \in DOMAIN tks |-> IF tks[u] = 0 THEN 0 ELSE IF u \in S THEN 1 ELSE 2] :
     S \in SUBSET DOMAIN tks}

\* C22: no credential value crosses the API boundary: the host listing is
\* the same for every store that differs only in its token strings, and the
\* answer of a host save is the same for every non-empty token submitted;
\* the credential shows as the boolean tokenSet only.
C22_TokenNeverReturned ==
  /\ [](resp.route = "hosts" =>
          /\ \A tks \in AltStores(tokens) : settingsHosts(hosts, tks) = resp.body
          /\ \A i \in 1..Len(resp.body) :
               resp.body[i].tokenSet = (getToken(resp.body[i].baseUrl) # 0))
  /\ []((resp.route = "save" /\ resp.ok) => resp.body[1].tokenSet \in BOOLEAN)
  /\ [][(req.route = "save" /\ resp'.route = "save" /\ resp'.ok) =>
          \A tok \in FormTokens :
            (tok = 0 <=> req.token = 0) =>
              resp' = saveHost_resp([req EXCEPT !.token = tok])]_vars

\* A listing of two hosts, one with a token and one without.
C22_Witness ==
  /\ resp.route = "hosts"
  /\ Len(resp.body) = 2
  /\ resp.body[1].tokenSet /\ ~resp.body[2].tokenSet
  /\ getToken(resp.body[1].baseUrl) = 2

\* The store call that has just been made.
LastCall == req.calls[Len(req.calls)]

\* C23: a host write with a missing name, a malformed baseUrl or a malformed
\* MAC fails with an error and stores nothing: the call raises, the host
\* registry and the credential store are as they were before it, and so no
\* stored Host Record lacks a name, a URL or a well-formed MAC.
C23_InvalidWriteStoresNothing ==
  /\ [](req.route = "store" =>
          \A i \in 1..Len(hosts) :
            /\ hosts[i].name # 0
            /\ hosts[i].baseUrl \in 1..NHosts
            /\ wellFormedMac(hosts[i].mac))
  /\ [][(req.route = "store" /\ req'.calls # req.calls /\ LastCall'.op = "upsertHost") =>
          /\ (~isUrl(LastCall'.baseUrl) \/ ~wellFormedMac(LastCall'.mac)) => ~resp'.ok
          /\ ~resp'.ok => hosts' = hosts /\ tokens' = tokens]_vars

InRange(progress) == progress # Null /\ progress[1] >= 0 /\ progress[1] <= 100

\* C24: an operation is detected as active when its type or kind matches
\* the parity/check keyword or when it has a numeric progress in [0,100],
\* for each of the three shapes: a started array then classifies as
\* 'parity'; when the sub-query gave no operation data the array classifies
\* as 'ok', with no error.
C24_ActiveOperationDetected ==
  (resp.route = "parity" /\ req.arrayState = "STARTED") =>
    /\ (req.p.shape = "operation"
          /\ (testCheckParity(req.p.operation.type) \/ InRange(req.p.operation.progress))) =>
         resp.status.code = "parity"
    /\ (req.p.shape = "parityCheck" /\ InRange(req.p.parityCheck.progress)) =>
         resp.status.code = "parity"
    /\ req.p.shape = "tasks" =>
         \A i \in 1..Len(req.p.tasks) :
           testCheckParity(req.p.tasks[i].kind) => resp.status.code = "parity"
    /\ req.p.shape \in {"thrown", "none"} =>
         resp.status = [code |-> "ok", label |-> Label("OK", Null)]

Mutating(tk) == tk.op \in {"container", "vm"} /\ tk.sub \in {"start", "stop", "vm"}

\* C25: a start/stop/VM primitive sends its mutation variants through the
\* ordered fallback: the requests are for variants 1, 2, ... in list order,
\* a variant is sent only after every earlier one soft-failed, nothing is
\* sent after a variant was accepted (at most one is), and a hard failure
\* ends the chain and is raised to the caller.
C25_MutationFallback ==
  \A t \in Tasks :
    LET tk == task[t] IN
    Mutating(tk) =>
      /\ tk.wire # <<>> =>
           /\ tk.wire[1].v = 1
           /\ \A i \in 1..(Len(tk.wire) - 1) : tk.wire[i + 1].v \in {tk.wire[i].v, tk.wire[i].v + 1}
           /\ \A i \in 1..Len(tk.wire) :
                \A j \in 1..(tk.wire[i].v - 1) : tk.tried[j] = Soft(j)
      /\ Cardinality({i \in 1..Len(tk.tried) : tk.tried[i].out \in {"data", "nodata"}}) <= 1
      /\ \A i \in 1..Len(tk.tried) :
           /\ tk.tried[i].out \in {"data", "nodata"} =>
                /\ i = Len(tk.tried) /\ tk.call.st = "ret" /\ ~Running(tk)
                /\ \A j \in 1..Len(tk.wire) : tk.wire[j].v <= i
           /\ Hard([k |-> tk.tried[i].out]) =>
                /\ i = Len(tk.tried) /\ ~Running(tk)
                /\ tk.call.st = "thr" /\ tk.call.err = [k |-> tk.tried[i].out, v |-> i]
                /\ \A j \in 1..Len(tk.wire) : tk.wire[j].v <= i
                /\ tk.pc = "done" => tk.out.st = "thr" /\ tk.out.error = tk.call.err

\* A container start whose first two mutation variants the schema rejected
\* and whose third was accepted.
C25_Witness ==
  \E t \in Tasks :
    /\ task[t].op = "container" /\ task[t].arg = "start" /\ task[t].sub = "start"
    /\ task[t].tried = <<Soft(1), Soft(2), [v |-> 3, out |-> "data"]>>
    /\ task[t].pc = "done" /\ task[t].out.st = "ret"
    /\ resp.route = "docker" /\ resp.ok

\* C26: the transactional host save is all-or-nothing: the Host Record is
\* added or updated only when the validating getHostStatus succeeded; when
\* it failed the answer is ok:false, the host registry is as before, and the
\* token stored for the test is gone: the store holds for that baseUrl what
\* it held before the request.
C26_SaveIsAllOrNothing ==
  [][(req.route = "savetx" /\ resp'.route = "savetx") =>
       /\ resp'.ok <=> task[1].out.ok
       /\ hosts' # hosts => task[1].out.ok
       /\ ~task[1].out.ok =>
            /\ hosts' = hosts
            /\ tokens' = [tokens EXCEPT ![req.baseUrl] = req.had]]_vars

\* The mutation fields of the primitives a containerAction call has run so
\* far, the one in progress included.
Fields(tk) ==
  IF tk.pc = "done" THEN [i \in 1..Len(tk.hist) |-> tk.hist[i].sub]
  ELSE Append([i \in 1..Len(tk.hist) |-> tk.hist[i].sub], tk.sub)

\* C27: containerAction emits the mutation fields start and stop only, and
\* rejects no verb before I/O: 'start' emits start, 'restart' emits stop and
\* then start, and every other verb, unknown, misspelled or missing, emits
\* stop; with a token stored the request of the first primitive is sent
\* whatever the verb.
C27_ContainerVerbs ==
  \A t \in Tasks :
    LET tk == task[t] IN
    tk.op = "container" =>
      /\ Fields(tk) # <<>>
      /\ \A i \in 1..Len(Fields(tk)) : Fields(tk)[i] \in {"start", "stop"}
      /\ tk.arg = "start" => Fields(tk) = <<"start">>
      /\ tk.arg = "restart" => Fields(tk) \in {<<"stop">>, <<"stop", "start">>}
      /\ tk.arg \notin {"start", "restart"} => Fields(tk) = <<"stop">>
      /\ tk.out.error.k # "unsupported"
      /\ getToken(tk.base) # 0 => tk.wire # <<>>
      /\ getToken(tk.base) = 0 => tk.call.err.k = "notoken"

\* The misspelled verb 'Start' stopped the container, and the route answered
\* ok.
C27_Witness ==
  /\ task[1].op = "container" /\ task[1].arg = "Start"
  /\ task[1].hist = <<[sub |-> "stop", res |-> "ok"]>>
  /\ task[1].pc = "done" /\ task[1].out.st = "ret"
  /\ resp.route = "docker" /\ resp.ok

\* C28: only an error array that comes with a 2xx response is a soft
\* failure: a non-2xx response is a hard failure, it ends the fallback chain
\* with its error and no later variant is sent, also when its body holds
\* GraphQL errors that say 'Cannot query field'.
C28_Non2xxIsHard ==
  /\ [](\A t \in Tasks :
          LET tk == task[t] IN
          \A i \in 1..Len(tk.tried) :
            tk.tried[i].out \in {"http", "httpschema"} =>
              /\ i = Len(tk.tried) /\ ~Running(tk)
              /\ tk.call.st = "thr" /\ tk.call.err = [k |-> tk.tried[i].out, v |-> tk.tried[i].v]
              /\ \A j \in 1..Len(tk.wire) : tk.wire[j].v <= tk.tried[i].v)
  /\ [][\A t \in Tasks :
          LET a == task[t]
              b == task'[t]
          IN /\ (a.pc = "body" /\ a.pend \in {"http", "httpschema"} /\ b # a) =>
                  /\ b.pc = "settled" /\ b.call.st = "thr"
                  /\ b.call.err = [k |-> a.pend, v |-> a.v]
                  /\ b.wire = a.wire
             /\ (b.tried # a.tried /\ b.tried # <<>> /\ b.tried[Len(b.tried)].out = "schema") =>
                  a.pc = "body" /\ a.pend = "schema"]_vars

\* The first of three variants was answered 400 with 'Cannot query field'
\* in its body: the call raised, and the second variant was never sent.
C28_Witness ==
  \E t \in Tasks :
    /\ NumVariants(task[t].sub) = 3
    /\ task[t].tried = <<[v |-> 1, out |-> "httpschema"]>>
    /\ task[t].call.st = "thr" /\ task[t].call.err = [k |-> "httpschema", v |-> 1]
    /\ task[t].wire = <<[v |-> 1, key |-> getToken(task[t].base)]>>

\* C29: the transport retries mutations too: within one start, stop or VM
\* primitive, an attempt that ends in a transport error with attempts left
\* is followed, after the backoff, by the same mutation variant sent again
\* with the same credential; a variant is sent at most REQUEST_RETRIES + 1
\* times.
C29_MutationsAreRetried ==
  /\ [](\A t \in Tasks :
          Mutating(task[t]) =>
            \A v \in 1..NumVariants(task[t].sub) : Attempts(task[t].wire, v) <= REQUEST_RETRIES + 1)
  /\ [][\A t \in Tasks :
          LET a == task[t]
              b == task'[t]
          IN Mutating(a) =>
               /\ (a.pc = "fetch" /\ b.pc \notin {"fetch", "body"}
                     /\ Attempts(a.wire, a.v) < REQUEST_RETRIES + 1) =>
                    b.pc = "backoff" /\ b.v = a.v /\ b.wire = a.wire
               /\ (a.pc = "backoff" /\ b # a) =>
                    /\ b.pc = "fetch" /\ b.v = a.v /\ b.sub = a.sub
                    /\ b.wire = Append(a.wire, a.wire[Len(a.wire)])]_vars

\* One container start put the same mutation on the wire three times, and
\* the third one was accepted.
C29_Witness ==
  \E t \in Tasks :
    /\ task[t].op = "container" /\ task[t].arg = "start" /\ task[t].sub = "start"
    /\ Len(task[t].wire) = 3
    /\ \A i \in 1..3 : task[t].wire[i] = [v |-> 1, key |-> getToken(task[t].base)]
    /\ task[t].tried = <<[v |-> 1, out |-> "data"]>>
    /\ task[t].pc = "done" /\ task[t].out.st = "ret"

\* C30: after every sequence of upsertHost, deleteHost and setToken calls no
\* two Host Records share a baseUrl; an upsertHost for a baseUrl that is
\* present replaces that record where it stands and leaves the length of
\* the list and the other records as they were, and an upsertHost for a new
\* baseUrl appends one record at the end.
C30_OneRecordPerBaseUrl ==
  /\ [](req.route = "store" =>
          \A i, j \in 1..Len(hosts) : hosts[i].baseUrl = hosts[j].baseUrl => i = j)
  /\ [][(req.route = "store" /\ req'.calls # req.calls
           /\ LastCall'.op = "upsertHost" /\ resp'.ok) =>
          LET u == trim(LastCall'.baseUrl) IN
          IF knownHost(u)
            THEN /\ Len(hosts') = Len(hosts)
                 /\ \A i \in 1..Len(hosts) :
                      IF hosts[i].baseUrl = u
                        THEN hosts'[i].baseUrl = u /\ hosts'[i].mac = LastCall'.mac
                        ELSE hosts'[i] = hosts[i]
            ELSE /\ Len(hosts') = Len(hosts) + 1
                 /\ SubSeq(hosts', 1, Len(hosts)) = hosts
                 /\ hosts'[Len(hosts')].baseUrl = u
                 /\ hosts'[Len(hosts')].mac = LastCall'.mac]_vars

\* Two hosts saved, then the first saved again, its base URL written with
\* white space around it and with another MAC: it is replaced where it
\* stands, ahead of the second.
C30_Witness ==
  /\ req.route = "store"
  /\ req.calls = <<StoreCall("upsertHost", 1, 1, 0), StoreCall("upsertHost", 2, 1, 0),
                   StoreCall("upsertHost", padded(1), 2, 0)>>
  /\ hosts = <<[name |-> 1, baseUrl |-> 1, mac |-> 2], [name |-> 1, baseUrl |-> 2, mac |-> 1]>>

====
